---- MODULE Spec2Model ----
(***************************************************************************)
(* Model of se3cnn/basis_kernels.py: construction of the equivariant       *)
(* kernel basis (cube_basis_kernels), its radial windows and the disk      *)
(* cache in front of _basis_transformation_Q_J and _sample_sh_cube.        *)
(*                                                                         *)
(* Tensors are modelled by their shape, their provenance (which J, which   *)
(* shell) and an abstraction of their magnitude: a Frobenius norm is one   *)
(* of "zero", "pos" (finite, positive), "one" or "nan".  The outcome of    *)
(* the floating point self-checks (the SVD null space size, the allclose   *)
(* tests) is decided by numerics outside this file and is a                *)
(* nondeterministic choice of the model.                                   *)
(***************************************************************************)
EXTENDS Integers, Sequences, FiniteSets, TLC

VARIABLES
    pc,           \* position of the caller of cube_basis_kernels / of a window
    calls,        \* number of calls of cube_basis_kernels started so far
    ambient,      \* the ambient torch default dtype of the caller
    args,         \* [size, order_in, order_out] of the call in progress
    order_irreps, \* _sample_cube: the list of J
    idx,          \* _sample_cube: number of J fully processed
    sh_cubes,     \* _sample_cube: the K_J appended so far
    r_field,      \* _sample_cube: the radial field handed to the window
    window,       \* the radial_window callable that was invoked (or NoWindow)
    gw,           \* what gaussian_window_fct was called with and did
    result,       \* the value returned to the caller
    error,        \* the assertion that failed, "none" otherwise
    requested,    \* log: the cached functions requested by the call in progress
    checks,       \* log: every self-check evaluated so far, with its outcome
    cacheY,       \* store of cached_dirpklgz("cache/sh_cube")
    cacheQ,       \* store of cached_dirpklgz("cache/trans_Q")
    tpc,          \* concurrent callers of a cached function: position
    tcall,        \* ... the function and key requested
    tamb,         \* ... the ambient default dtype of that caller
    tval,         \* ... the value computed or read
    returned,     \* log: <<function, key, value>> of every value returned
    writes,       \* log: <<function, key, value>> of every write to a store
    ypc,          \* a direct call of _sample_sh_cube: position
    yargs,        \* ... its arguments [size, J]
    ystep,        \* ... number of iterations of the innermost loop completed
    Y_J,          \* ... the tensor Y_J, voxel by voxel
    assigned      \* log: per voxel, the number of assignments to Y_J[:, voxel]

vars == <<pc, calls, ambient, args, order_irreps, idx, sh_cubes, r_field, window,
          gw, result, error, requested, checks, cacheY, cacheQ,
          tpc, tcall, tamb, tval, returned, writes,
          ypc, yargs, ystep, Y_J, assigned>>

pipeVars == <<pc, calls, ambient, args, order_irreps, idx, sh_cubes, r_field,
              window, gw, result, error, requested, checks>>
threadVars == <<tpc, tcall, tamb, tval, returned, writes>>
loopVars == <<ypc, yargs, ystep, Y_J, assigned>>

(***************************************************************************)
(* Bounds of the model.                                                    *)
(***************************************************************************)
MaxSize == 2      \* kernel side lengths 1..MaxSize in cube_basis_kernels
MaxOrder == 1     \* order_in, order_out in 0..MaxOrder
MaxShells == 2    \* radii and J_max_list have 0..MaxShells entries
MaxCalls == 2     \* calls of cube_basis_kernels in one run
MaxRField == 17   \* side of the r_field in direct calls of the wrapper
MaxCube == 4      \* side lengths 1..MaxCube in direct calls of _sample_sh_cube

Version == 3

Dtypes == {"float32", "float64"}
RandDraws == {"u1", "u2"}          \* two different outcomes of torch.rand(4, 3)
NullSpaceSizes == {0, 1, 2}        \* rows of v.t()[s < eps]

Abs(x) == IF x < 0 THEN -x ELSE x
Min(a, b) == IF a <= b THEN a ELSE b

\* python: list(range(a, b))
Range(a, b) == [i \in 1..(IF b > a THEN b - a ELSE 0) |-> a + i - 1]

\* python: s[:n] for n >= 0
Slice(s, n) == SubSeq(s, 1, Min(n, Len(s)))

(***************************************************************************)
(* The disk cache (cached_dirpklgz): a store from key to value.            *)
(***************************************************************************)
EmptyCache == << >>
CacheHas(c, key) == key \in DOMAIN c
CacheGet(c, key) == c[key]
CachePut(c, key, v) == [k \in (DOMAIN c) \cup {key} |-> IF k = key THEN v ELSE c[k]]

KeyQ(J, order_in, order_out, version) == <<J, order_in, order_out, version>>
KeyY(size, J, version) == <<size, J, version>>

(***************************************************************************)
(* _basis_transformation_Q_J: the value computed on a miss.  rnd is the    *)
(* draw of torch.rand(4, 3), which only feeds the self-check.              *)
(***************************************************************************)
BasisTransformationQJRandomAngles(J, order_in, order_out, rnd) ==
    [dtype |-> "float64", J |-> J, order_in |-> order_in, order_out |-> order_out,
     shape |-> <<(2 * order_out + 1) * (2 * order_in + 1), 2 * J + 1>>,
     angles |-> rnd]

BasisTransformationQJ(J, order_in, order_out, rnd) ==
    [dtype |-> "float64", J |-> J, order_in |-> order_in, order_out |-> order_out,
     shape |-> <<(2 * order_out + 1) * (2 * order_in + 1), 2 * J + 1>>,
     angles |-> "random_angles"]

NullSpaceNonEmpty(n) == n >= 1

\* assert null_space.size(0) == 1
NullSpaceUnique(n) == n = 1

(***************************************************************************)
(* _sample_sh_cube.  Coordinates are kept doubled, so that the grid        *)
(* linspace(-(size-1)/2, (size-1)/2, size) stays in the integers.          *)
(***************************************************************************)
Rng2(size) == [i \in 1..size |-> 2 * (i - 1) - (size - 1)]

Grid(size) == (1..size) \X (1..size) \X (1..size)

AtOriginDiagonal(x2, y2, z2) == x2 = y2 /\ y2 = z2

\* if x == y == z == 0
AtOrigin(x2, y2, z2) == x2 = y2 /\ y2 = z2 /\ z2 = 0

\* the voxels (idx_x, idx_y, idx_z) that take the branch "angles at origin"
OriginVoxels(size) ==
    {v \in Grid(size) : AtOrigin(Rng2(size)[v[1]], Rng2(size)[v[2]], Rng2(size)[v[3]])}

\* Y_J: what the loop wrote at the origin voxels and what it wrote elsewhere
\* (spherical_harmonics(J, alpha, beta) at the voxel's own direction)
SampleShCubeAmbientDtype(size, J, amb) ==
    [dtype |-> amb, J |-> J, shape |-> <<2 * J + 1, size, size, size>>,
     origin |-> OriginVoxels(size),
     at_origin |-> IF J = 0 THEN "Y0(123,321)" ELSE "zero",
     elsewhere |-> "Y(alpha,beta)"]

SampleShCube(size, J, amb) ==
    [dtype |-> "float64", J |-> J, shape |-> <<2 * J + 1, size, size, size>>,
     origin |-> OriginVoxels(size),
     at_origin |-> IF J = 0 THEN "Y0(123,321)" ELSE "zero",
     elsewhere |-> "Y(alpha,beta)"]

\* Y_J is zero at every voxel of its grid
AllZero(Y) ==
    \A v \in Grid(Y.shape[2]) :
        IF v \in Y.origin THEN Y.at_origin = "zero" ELSE Y.elsewhere = "zero"

(***************************************************************************)
(* _sample_cube                                                            *)
(***************************************************************************)
OrderIrrepsFromZero(order_in, order_out) == Range(0, order_in + order_out + 1)

OrderIrreps(order_in, order_out) ==
    Range(Abs(order_in - order_out), order_in + order_out + 1)

\* K_J = einsum('mn,nxyz->mxyz', Q_J, Y_J).reshape(...).  Q_J has orthogonal
\* columns of equal length, so K_J vanishes exactly where Y_J does.
EinsumQY(Q, Y, size, order_in, order_out) ==
    [shape |-> <<2 * order_out + 1, 2 * order_in + 1, size, size, size>>,
     QJ |-> Q.J, YJ |-> Y.J, r |-> -1,
     norm |-> IF AllZero(Y) THEN "zero" ELSE "pos"]

RField(size) == [shape |-> <<size, size, size>>]

(***************************************************************************)
(* gaussian_window_fct                                                     *)
(***************************************************************************)
NoBasis == [kind |-> "None", shape |-> << >>, elems |-> << >>]

\* sh_cubes[idx_J] * window: the Gaussian envelope is positive everywhere
Windowed(K, r) == [K EXCEPT !.r = r]

BandlimitReached(J, J_max) == J >= J_max

\* if J > J_max: break
BandlimitExceeded(J, J_max) == J > J_max

RECURSIVE BandLoop(_, _, _, _, _)
BandLoop(cubes, irreps, i, r, J_max) ==
    IF i > Len(irreps) THEN << >>
    ELSE IF BandlimitExceeded(irreps[i], J_max) THEN << >>
    ELSE <<Windowed(cubes[i], r)>> \o BandLoop(cubes, irreps, i + 1, r, J_max)

RECURSIVE ShellLoop(_, _, _, _, _)
ShellLoop(cubes, irreps, radii, J_max_list, s) ==
    IF s > Min(Len(radii), Len(J_max_list)) THEN << >>
    ELSE BandLoop(cubes, irreps, 1, radii[s], J_max_list[s])
         \o ShellLoop(cubes, irreps, radii, J_max_list, s + 1)

StackAlways(basis) ==
    [kind |-> "tensor",
     shape |-> <<Len(basis)>> \o (IF Len(basis) > 0 THEN basis[1].shape ELSE << >>),
     elems |-> basis]

StackOrNone(basis) ==
    IF Len(basis) > 0
    THEN [kind |-> "tensor", shape |-> <<Len(basis)>> \o basis[1].shape, elems |-> basis]
    ELSE NoBasis

LengthsUnchecked(radii, J_max_list) == TRUE

\* assert len(radii) == len(J_max_list)
LengthsAgree(radii, J_max_list) == Len(radii) = Len(J_max_list)

GaussianWindowFct(cubes, rf, irreps, radii, J_max_list) ==
    IF ~LengthsAgree(radii, J_max_list)
    THEN [status |-> "AssertionError:185", basis |-> NoBasis,
          radii |-> radii, J_max_list |-> J_max_list, shells |-> 0, windowed |-> 0]
    ELSE LET basis == ShellLoop(cubes, irreps, radii, J_max_list, 1)
         IN  [status |-> "ok", basis |-> StackOrNone(basis),
              radii |-> radii, J_max_list |-> J_max_list,
              shells |-> Min(Len(radii), Len(J_max_list)), windowed |-> Len(basis)]

(***************************************************************************)
(* gaussian_window_fct_convenience_wrapper (border_dist = 0)               *)
(***************************************************************************)
Modes == {"conservative", "compromise", "sfcnn"}

ModeTable(mode) ==
    CASE mode = "conservative" -> <<0, 2, 4, 6, 8, 10, 12, 14>>
      [] mode = "compromise" -> <<0, 3, 5, 7, 9, 11, 13, 15>>
      [] mode = "sfcnn" -> <<0, 4, 6, 8, 10, 12, 14, 16>>

NRadial(size) == (size \div 2) + 1

\* torch.linspace(0, size // 2, steps=n_radial): 0, 1, ..., size // 2
WrapperRadii(size) == [i \in 1..NRadial(size) |-> i - 1]

GaussianWindowFctConvenienceWrapper(cubes, rf, irreps, mode) ==
    LET size == rf.shape[1]
        n_radial == NRadial(size)
        radii == WrapperRadii(size)
        J_max_list == Slice(ModeTable(mode), n_radial)
    IN  GaussianWindowFct(cubes, rf, irreps, radii, J_max_list)

(***************************************************************************)
(* The radial_window callables handed to cube_basis_kernels.               *)
(***************************************************************************)
NoWindow == [kind |-> "none", radii |-> << >>, J_max_list |-> << >>, mode |-> "none"]

RadiiLists == {[i \in 1..n |-> i - 1] : n \in 0..MaxShells}
\* bandlimits: 0, 1 and the 999 of _test_basis_equivariance (no limit)
Bandlimits == {0, 1, 999}
JmaxLists == UNION {[1..n -> Bandlimits] : n \in 0..MaxShells}

GaussianWindows ==
    {[kind |-> "gaussian_window_fct", radii |-> r, J_max_list |-> j, mode |-> "none"] :
        r \in RadiiLists, j \in JmaxLists}
WrapperWindows ==
    {[kind |-> "convenience_wrapper", radii |-> << >>, J_max_list |-> << >>, mode |-> m] :
        m \in Modes}
Windows == GaussianWindows \cup WrapperWindows

RadialWindow(w, cubes, rf, irreps) ==
    IF w.kind = "gaussian_window_fct"
    THEN GaussianWindowFct(cubes, rf, irreps, w.radii, w.J_max_list)
    ELSE GaussianWindowFctConvenienceWrapper(cubes, rf, irreps, w.mode)

NoGw == [status |-> "none", basis |-> NoBasis, radii |-> << >>, J_max_list |-> << >>,
         shells |-> 0, windowed |-> 0]

(***************************************************************************)
(* cube_basis_kernels: the normalisation                                   *)
(***************************************************************************)
\* the norm of x / ||x||
DivNorm(n) == IF n = "zero" \/ n = "nan" THEN "nan" ELSE "one"

\* basis / basis.view(N, -1).norm(dim=1).view(-1, 1, 1, 1, 1, 1)
Normalize(basis) ==
    [basis EXCEPT !.elems = [i \in 1..Len(basis.elems) |->
        [basis.elems[i] EXCEPT !.norm = DivNorm(basis.elems[i].norm)]]]

NoResult == [kind |-> "unset", shape |-> << >>, elems |-> << >>]
NoArgs == [size |-> 0, order_in |-> 0, order_out |-> 0]

(***************************************************************************)
(* Initial state: nothing called, both stores empty.                       *)
(***************************************************************************)
Threads == {"t1", "t2"}

Init ==
    /\ pc = "idle"
    /\ calls = 0
    /\ ambient = "float32"
    /\ args = NoArgs
    /\ order_irreps = << >>
    /\ idx = 0
    /\ sh_cubes = << >>
    /\ r_field = RField(0)
    /\ window = NoWindow
    /\ gw = NoGw
    /\ result = NoResult
    /\ error = "none"
    /\ requested = {}
    /\ checks = {}
    /\ cacheY = EmptyCache
    /\ cacheQ = EmptyCache
    /\ tpc = [t \in Threads |-> "idle"]
    /\ tcall = [t \in Threads |-> [fn |-> "none", key |-> << >>]]
    /\ tamb = [t \in Threads |-> "float32"]
    /\ tval = [t \in Threads |-> << >>]
    /\ returned = {}
    /\ writes = {}
    /\ ypc = "idle"
    /\ yargs = [size |-> 0, J |-> 0]
    /\ ystep = 0
    /\ Y_J = << >>
    /\ assigned = << >>

(***************************************************************************)
(* cube_basis_kernels(size, order_in, order_out, radial_window), entered:  *)
(* _sample_cube computes rng and order_irreps.                             *)
(***************************************************************************)
CallCubeBasisKernels ==
    /\ pc \in {"idle", "returned"}
    /\ calls < MaxCalls
    /\ \E size \in 1..MaxSize, order_in \in 0..MaxOrder, order_out \in 0..MaxOrder :
        /\ args' = [size |-> size, order_in |-> order_in, order_out |-> order_out]
        /\ order_irreps' = OrderIrreps(order_in, order_out)
    /\ calls' = calls + 1
    /\ pc' = "sampling"
    /\ idx' = 0
    /\ sh_cubes' = << >>
    /\ r_field' = RField(0)
    /\ window' = NoWindow
    /\ gw' = NoGw
    /\ result' = NoResult
    /\ requested' = {}
    /\ UNCHANGED <<ambient, error, checks, cacheY, cacheQ>>
    /\ UNCHANGED threadVars
    /\ UNCHANGED loopVars

(***************************************************************************)
(* One iteration of the loop of _sample_cube, for J = order_irreps[idx+1]. *)
(***************************************************************************)
CurJ == order_irreps[idx + 1]
CurKeyY == KeyY(args.size, CurJ, Version)
CurKeyQ == KeyQ(CurJ, args.order_in, args.order_out, Version)

\* _sample_sh_cube(size, J) through its cache
CurY == IF CacheHas(cacheY, CurKeyY) THEN CacheGet(cacheY, CurKeyY)
        ELSE SampleShCube(args.size, CurJ, ambient)
CacheYAfter == IF CacheHas(cacheY, CurKeyY) THEN cacheY
               ELSE CachePut(cacheY, CurKeyY, CurY)

InLoop == pc = "sampling" /\ idx < Len(order_irreps)

LogY == <<"_sample_sh_cube", CurJ>>
LogQ == <<"_basis_transformation_Q_J", CurJ>>
Check(name, size, outcome) ==
    <<name, CurJ, args.order_in, args.order_out, size, outcome>>

\* a failing assert is caught nowhere: the exception leaves cube_basis_kernels
\* and ends the run (pc = "raised" has no successor)
Raise(err) ==
    /\ pc' = "raised"
    /\ error' = err
    /\ UNCHANGED <<calls, ambient, args, order_irreps, idx, r_field, window, gw, result>>
    /\ UNCHANGED threadVars
    /\ UNCHANGED loopVars

\* Q_J is not in the store and the null space has not exactly one row
IterNullSpaceFails ==
    /\ InLoop
    /\ ~CacheHas(cacheQ, CurKeyQ)
    /\ \E n \in NullSpaceSizes :
        /\ ~NullSpaceUnique(n)
        /\ checks' = checks \cup {Check("null_space", 0, n)}
    /\ cacheY' = CacheYAfter
    /\ requested' = requested \cup {LogY, LogQ}
    /\ UNCHANGED <<cacheQ, sh_cubes>>
    /\ Raise("AssertionError:79")

\* Q_J is not in the store and its equivariance self-check fails
IterQCheckFails ==
    /\ InLoop
    /\ ~CacheHas(cacheQ, CurKeyQ)
    /\ \E n \in NullSpaceSizes :
        /\ NullSpaceUnique(n)
        /\ checks' = checks \cup {Check("null_space", 0, n), Check("Q_J", 0, 0)}
    /\ cacheY' = CacheYAfter
    /\ requested' = requested \cup {LogY, LogQ}
    /\ UNCHANGED <<cacheQ, sh_cubes>>
    /\ Raise("AssertionError:82")

\* Q_J read from the store or computed; then K_J and the quarter-turn check
IterBody(quarter_ok) ==
    /\ InLoop
    /\ \E n \in NullSpaceSizes, rnd \in RandDraws :
        LET hit == CacheHas(cacheQ, CurKeyQ)
            Q == IF hit THEN CacheGet(cacheQ, CurKeyQ)
                 ELSE BasisTransformationQJ(CurJ, args.order_in, args.order_out, rnd)
            K == EinsumQY(Q, CurY, args.size, args.order_in, args.order_out)
        IN  /\ hit \/ NullSpaceUnique(n)
            /\ cacheQ' = IF hit THEN cacheQ ELSE CachePut(cacheQ, CurKeyQ, Q)
            /\ sh_cubes' = Append(sh_cubes, K)
            /\ checks' = checks
                 \cup (IF hit THEN {}
                       ELSE {Check("null_space", 0, n), Check("Q_J", 0, 1)})
                 \cup {Check("quarter_turn", args.size, IF quarter_ok THEN 1 ELSE 0)}
    /\ cacheY' = CacheYAfter
    /\ requested' = requested \cup {LogY, LogQ}

IterPasses ==
    /\ IterBody(TRUE)
    /\ idx' = idx + 1
    /\ UNCHANGED <<pc, calls, ambient, args, order_irreps, r_field, window, gw,
                   result, error>>
    /\ UNCHANGED threadVars
    /\ UNCHANGED loopVars

IterQuarterTurnFails ==
    /\ IterBody(FALSE)
    /\ Raise("AssertionError:148")

\* the loop is over: r_field is computed and the triple returned
SampleCubeReturn ==
    /\ pc = "sampling"
    /\ idx = Len(order_irreps)
    /\ r_field' = RField(args.size)
    /\ pc' = "sampled"
    /\ UNCHANGED <<calls, ambient, args, order_irreps, idx, sh_cubes, window, gw,
                   result, error, requested, checks, cacheY, cacheQ>>
    /\ UNCHANGED threadVars
    /\ UNCHANGED loopVars

(***************************************************************************)
(* radial_window applied to the triple of _sample_cube, the normalisation *)
(* and the return.  The callable's bound arguments are first read here.    *)
(***************************************************************************)
InvokeRadialWindow ==
    /\ pc = "sampled"
    /\ \E w \in Windows :
        LET out == RadialWindow(w, sh_cubes, r_field, order_irreps)
        IN  /\ window' = w
            /\ gw' = out
            /\ IF out.status = "ok"
               THEN /\ pc' = "returned"
                    /\ error' = error
                    /\ result' = IF out.basis.kind # "None"
                                 THEN Normalize(out.basis)
                                 ELSE out.basis
               ELSE /\ pc' = "raised"
                    /\ error' = out.status
                    /\ result' = result
    /\ UNCHANGED <<calls, ambient, args, order_irreps, idx, sh_cubes, r_field,
                   requested, checks, cacheY, cacheQ>>
    /\ UNCHANGED threadVars
    /\ UNCHANGED loopVars

(***************************************************************************)
(* The two window functions called directly, on a strictly ascending       *)
(* sub-list of the J of some (order_in, order_out) and the caller's cubes. *)
(***************************************************************************)
RECURSIVE SortedSeq(_)
SortedSeq(S) ==
    IF S = {} THEN << >>
    ELSE LET m == CHOOSE x \in S : \A y \in S : x <= y
         IN  <<m>> \o SortedSeq(S \ {m})

SeqRange(s) == {s[i] : i \in 1..Len(s)}

AscendingSubLists(order_in, order_out) ==
    {SortedSeq(S) : S \in SUBSET SeqRange(OrderIrreps(order_in, order_out))}

\* a cube of shape (2*l+1, 2*j+1, size, size, size) supplied by the caller
CallerCube(size, order_in, order_out, J) ==
    [shape |-> <<2 * order_out + 1, 2 * order_in + 1, size, size, size>>,
     QJ |-> J, YJ |-> J, r |-> -1, norm |-> "pos"]

DirectCall(size, order_in, order_out, irreps, w) ==
    LET cubes == [i \in 1..Len(irreps) |-> CallerCube(size, order_in, order_out, irreps[i])]
        out == RadialWindow(w, cubes, RField(size), irreps)
    IN  /\ order_irreps' = irreps
        /\ sh_cubes' = cubes
        /\ r_field' = RField(size)
        /\ window' = w
        /\ gw' = out
        /\ IF out.status = "ok"
           THEN pc' = "direct_returned" /\ error' = error /\ result' = out.basis
           ELSE pc' = "direct_raised" /\ error' = out.status /\ result' = result
        /\ UNCHANGED <<calls, ambient, args, idx, requested, checks, cacheY, cacheQ>>
        /\ UNCHANGED threadVars
        /\ UNCHANGED loopVars

DirectGaussianWindowFct ==
    /\ pc = "idle"
    /\ \E size \in 1..MaxSize, order_in \in 0..MaxOrder, order_out \in 0..MaxOrder :
        \E irreps \in AscendingSubLists(order_in, order_out), w \in GaussianWindows :
            DirectCall(size, order_in, order_out, irreps, w)

DirectConvenienceWrapper ==
    /\ pc = "idle"
    /\ \E size \in 1..MaxRField, order_in \in 0..MaxOrder, order_out \in 0..MaxOrder :
        \E w \in WrapperWindows :
            DirectCall(size, order_in, order_out, OrderIrreps(order_in, order_out), w)

Next ==
    \/ CallCubeBasisKernels
    \/ IterNullSpaceFails
    \/ IterQCheckFails
    \/ IterPasses
    \/ IterQuarterTurnFails
    \/ SampleCubeReturn
    \/ InvokeRadialWindow
    \/ DirectGaussianWindowFct
    \/ DirectConvenienceWrapper

Spec == Init /\ [][Next]_vars

(***************************************************************************)
(* Concurrent callers of the two cached functions.  Each caller makes one  *)
(* call: the store is read (get); on a miss the function body runs, its    *)
(* result is written (put) and returned.                                   *)
(***************************************************************************)
CallsY ==
    {[fn |-> "_sample_sh_cube", key |-> KeyY(size, J, Version)] :
        size \in 1..MaxSize, J \in 0..(2 * MaxOrder)}
CallsQ ==
    UNION {{[fn |-> "_basis_transformation_Q_J",
             key |-> KeyQ(OrderIrreps(o[1], o[2])[i], o[1], o[2], Version)] :
                i \in 1..Len(OrderIrreps(o[1], o[2]))} :
           o \in (0..MaxOrder) \X (0..MaxOrder)}

StoreOf(c) == IF c.fn = "_sample_sh_cube" THEN cacheY ELSE cacheQ

\* get(key) finds an entry: the stored value is returned
TLookupHit(t) ==
    /\ tpc[t] = "idle"
    /\ \E c \in CallsY \cup CallsQ, amb \in Dtypes :
        /\ CacheHas(StoreOf(c), c.key)
        /\ tcall' = [tcall EXCEPT ![t] = c]
        /\ tamb' = [tamb EXCEPT ![t] = amb]
        /\ tval' = [tval EXCEPT ![t] = CacheGet(StoreOf(c), c.key)]
        /\ returned' = returned \cup
             {[fn |-> c.fn, key |-> c.key, value |-> CacheGet(StoreOf(c), c.key)]}
    /\ tpc' = [tpc EXCEPT ![t] = "done_hit"]
    /\ UNCHANGED <<cacheY, cacheQ, writes>>
    /\ UNCHANGED pipeVars
    /\ UNCHANGED loopVars

\* get(key) finds nothing: the function body is entered
TLookupMiss(t) ==
    /\ tpc[t] = "idle"
    /\ \E c \in CallsY \cup CallsQ, amb \in Dtypes :
        /\ ~CacheHas(StoreOf(c), c.key)
        /\ tcall' = [tcall EXCEPT ![t] = c]
        /\ tamb' = [tamb EXCEPT ![t] = amb]
    /\ tpc' = [tpc EXCEPT ![t] = "computing"]
    /\ UNCHANGED <<tval, returned, writes, cacheY, cacheQ>>
    /\ UNCHANGED pipeVars
    /\ UNCHANGED loopVars

\* the body of _sample_sh_cube
TComputeY(t) ==
    /\ tpc[t] = "computing"
    /\ tcall[t].fn = "_sample_sh_cube"
    /\ tval' = [tval EXCEPT ![t] = SampleShCube(tcall[t].key[1], tcall[t].key[2], tamb[t])]
    /\ tpc' = [tpc EXCEPT ![t] = "computed"]
    /\ UNCHANGED <<tcall, tamb, returned, writes, cacheY, cacheQ>>
    /\ UNCHANGED pipeVars
    /\ UNCHANGED loopVars

\* the body of _basis_transformation_Q_J, both assertions passing
TComputeQ(t) ==
    /\ tpc[t] = "computing"
    /\ tcall[t].fn = "_basis_transformation_Q_J"
    /\ \E n \in NullSpaceSizes, rnd \in RandDraws :
        /\ NullSpaceUnique(n)
        /\ tval' = [tval EXCEPT ![t] =
             BasisTransformationQJ(tcall[t].key[1], tcall[t].key[2], tcall[t].key[3], rnd)]
    /\ tpc' = [tpc EXCEPT ![t] = "computed"]
    /\ UNCHANGED <<tcall, tamb, returned, writes, cacheY, cacheQ>>
    /\ UNCHANGED pipeVars
    /\ UNCHANGED loopVars

\* the body of _basis_transformation_Q_J, an assertion failing: nothing is stored
TComputeQFails(t) ==
    /\ tpc[t] = "computing"
    /\ tcall[t].fn = "_basis_transformation_Q_J"
    /\ tpc' = [tpc EXCEPT ![t] = "raised"]
    /\ UNCHANGED <<tcall, tamb, tval, returned, writes, cacheY, cacheQ>>
    /\ UNCHANGED pipeVars
    /\ UNCHANGED loopVars

\* put(key, value), then the value is returned
TPut(t) ==
    /\ tpc[t] = "computed"
    /\ IF tcall[t].fn = "_sample_sh_cube"
       THEN cacheY' = CachePut(cacheY, tcall[t].key, tval[t]) /\ cacheQ' = cacheQ
       ELSE cacheQ' = CachePut(cacheQ, tcall[t].key, tval[t]) /\ cacheY' = cacheY
    /\ writes' = writes \cup {[fn |-> tcall[t].fn, key |-> tcall[t].key, value |-> tval[t]]}
    /\ returned' = returned \cup
         {[fn |-> tcall[t].fn, key |-> tcall[t].key, value |-> tval[t]]}
    /\ tpc' = [tpc EXCEPT ![t] = "done_miss"]
    /\ UNCHANGED <<tcall, tamb, tval>>
    /\ UNCHANGED pipeVars
    /\ UNCHANGED loopVars

NextCache ==
    \E t \in Threads :
        \/ TLookupHit(t)
        \/ TLookupMiss(t)
        \/ TComputeY(t)
        \/ TComputeQ(t)
        \/ TComputeQFails(t)
        \/ TPut(t)

SpecCache == Init /\ [][NextCache]_vars

(***************************************************************************)
(* _sample_sh_cube(size, J) called directly, its triple loop taken one     *)
(* iteration of the innermost body at a time.  A value written to          *)
(* Y_J[:, idx_x, idx_y, idx_z] is recorded by the call that produced it:   *)
(* its kind, the order of the spherical harmonic and where it was          *)
(* evaluated (the angles 123, 321, or the voxel's doubled coordinates,     *)
(* whose direction is that of [x, y, z]).  Indices start at 1: the model's *)
(* index i is the code's idx = i - 1.                                      *)
(***************************************************************************)
\* Y_J = torch.zeros(2 * J + 1, size, size, size), one voxel of it
ZerosVoxel(J) == [kind |-> "torch.zeros", order |-> J, at |-> << >>]

\* Y_J[:, idx_x, idx_y, idx_z] = spherical_harmonics(0, 123, 321)
OriginConstant == [kind |-> "Y0(123,321)", order |-> 0, at |-> <<123, 321>>]

\* Y_J[:, idx_x, idx_y, idx_z] = 0
OriginZero(J) == [kind |-> "zero", order |-> J, at |-> << >>]

\* alpha, beta = x_to_alpha_beta([x, y, z]); spherical_harmonics(J, alpha, beta)
HarmonicAt(J, x2, y2, z2) == [kind |-> "Y(alpha,beta)", order |-> J, at |-> <<x2, y2, z2>>]

\* the voxel of iteration n (from 0) of the nested enumerate(rng) loops
VoxelAt(size, n) ==
    <<(n \div (size * size)) + 1, ((n \div size) % size) + 1, (n % size) + 1>>

CurVoxel == VoxelAt(yargs.size, ystep)

CurAtOrigin ==
    AtOrigin(Rng2(yargs.size)[CurVoxel[1]], Rng2(yargs.size)[CurVoxel[2]],
             Rng2(yargs.size)[CurVoxel[3]])

\* the call, up to the allocation of Y_J
CallSampleShCube ==
    /\ ypc = "idle"
    /\ \E size \in 1..MaxCube, J \in 0..(2 * MaxOrder) :
        /\ yargs' = [size |-> size, J |-> J]
        /\ Y_J' = [v \in Grid(size) |-> ZerosVoxel(J)]
        /\ assigned' = [v \in Grid(size) |-> 0]
    /\ ystep' = 0
    /\ ypc' = "loop"
    /\ UNCHANGED pipeVars
    /\ UNCHANGED threadVars
    /\ UNCHANGED <<cacheY, cacheQ>>

\* one iteration: the value v is assigned to the current voxel
Assign(v) ==
    /\ Y_J' = [Y_J EXCEPT ![CurVoxel] = v]
    /\ assigned' = [assigned EXCEPT ![CurVoxel] = @ + 1]
    /\ ystep' = ystep + 1
    /\ UNCHANGED <<ypc, yargs>>
    /\ UNCHANGED pipeVars
    /\ UNCHANGED threadVars
    /\ UNCHANGED <<cacheY, cacheQ>>

InVoxelLoop == ypc = "loop" /\ ystep < yargs.size * yargs.size * yargs.size

\* x == y == z == 0 and J == 0
LoopOriginConstant ==
    /\ InVoxelLoop
    /\ CurAtOrigin
    /\ yargs.J = 0
    /\ Assign(OriginConstant)

\* x == y == z == 0 and J != 0
LoopOriginZero ==
    /\ InVoxelLoop
    /\ CurAtOrigin
    /\ yargs.J # 0
    /\ Assign(OriginZero(yargs.J))

\* the else branch
LoopElsewhere ==
    /\ InVoxelLoop
    /\ ~CurAtOrigin
    /\ Assign(HarmonicAt(yargs.J, Rng2(yargs.size)[CurVoxel[1]],
                         Rng2(yargs.size)[CurVoxel[2]], Rng2(yargs.size)[CurVoxel[3]]))

\* the loops are exhausted: return Y_J
SampleShCubeReturn ==
    /\ ypc = "loop"
    /\ ystep = yargs.size * yargs.size * yargs.size
    /\ ypc' = "returned"
    /\ UNCHANGED <<yargs, ystep, Y_J, assigned>>
    /\ UNCHANGED pipeVars
    /\ UNCHANGED threadVars
    /\ UNCHANGED <<cacheY, cacheQ>>

NextLoop ==
    \/ CallSampleShCube
    \/ LoopOriginConstant
    \/ LoopOriginZero
    \/ LoopElsewhere
    \/ SampleShCubeReturn

SpecLoop == Init /\ [][NextLoop]_vars

(***************************************************************************)
(* Properties                                                              *)
(***************************************************************************)
InPipeline == pc \in {"sampling", "sampled", "returned", "raised"}
SampleErrors == {"AssertionError:79", "AssertionError:82", "AssertionError:148"}

\* the number of J of irreps that a shell of bandlimit J_max accepts
AcceptedBy(irreps, J_max) == Cardinality({i \in 1..Len(irreps) : irreps[i] <= J_max})

RECURSIVE AcceptedPairs(_, _, _)
AcceptedPairs(irreps, J_max_list, s) ==
    IF s > Len(J_max_list) THEN 0
    ELSE AcceptedBy(irreps, J_max_list[s]) + AcceptedPairs(irreps, J_max_list, s + 1)

\* C1: a call of cube_basis_kernels with gaussian_window_fct that returns,
\* returns the sentinel None exactly when no (shell, J) pair was accepted, and
\* otherwise a tensor of shape (N, 2*order_out+1, 2*order_in+1, size, size, size)
\* whose N >= 1 is the number of accepted pairs; never a tensor with N = 0.
C1_ShapeContract ==
    (pc = "returned" /\ window.kind = "gaussian_window_fct") =>
        LET n == AcceptedPairs(order_irreps, window.J_max_list, 1)
        IN  /\ result.kind \in {"None", "tensor"}
            /\ (result.kind = "None") <=> (n = 0)
            /\ result.kind = "tensor" =>
                /\ n >= 1
                /\ Len(result.elems) = n
                /\ result.shape = <<n, 2 * args.order_out + 1, 2 * args.order_in + 1,
                                    args.size, args.size, args.size>>

C1_Witness ==
    /\ pc = "returned"
    /\ window.kind = "gaussian_window_fct"
    /\ Len(window.radii) = 2
    /\ result.kind = "tensor"
    /\ result.shape[1] >= 3

\* the sequences of the docstring: [0,2,4,6,...], [0,3,5,7,...], [0,4,6,8,...]
ModeSequence(mode, i) ==
    IF i = 1 THEN 0
    ELSE CASE mode = "conservative" -> 2 * (i - 1)
           [] mode = "compromise" -> 2 * (i - 1) + 1
           [] mode = "sfcnn" -> 2 * i

\* C2: the convenience wrapper calls gaussian_window_fct with n_radial =
\* size//2+1 radii and the first n_radial bandlimits of the mode's sequence,
\* so the two lists agree in length and the call does not fail.
C2_WrapperLists ==
    window.kind = "convenience_wrapper" =>
        LET n == NRadial(r_field.shape[1])
        IN  /\ Len(gw.radii) = n
            /\ Len(gw.J_max_list) = n
            /\ gw.J_max_list = [i \in 1..n |-> ModeSequence(window.mode, i)]
            /\ gw.status = "ok"
            /\ pc \in {"returned", "direct_returned"}

\* C4: every element of a basis returned by cube_basis_kernels has Frobenius
\* norm 1.
C4_UnitNorm ==
    (pc = "returned" /\ result.kind = "tensor") =>
        \A i \in 1..Len(result.elems) : result.elems[i].norm = "one"

\* C7: gaussian_window_fct called with len(radii) # len(J_max_list) fails with
\* the assertion of line 185 before any shell is processed or any cube
\* windowed; the caller (cube_basis_kernels included) gets neither a basis nor
\* the sentinel.
C7_MismatchFatal ==
    (window.kind = "gaussian_window_fct" /\ Len(window.radii) # Len(window.J_max_list)) =>
        /\ pc \in {"raised", "direct_raised"}
        /\ error = "AssertionError:185"
        /\ gw.status = "AssertionError:185"
        /\ gw.shells = 0
        /\ gw.windowed = 0
        /\ result = NoResult

C7_Witness ==
    /\ pc = "raised"
    /\ window.kind = "gaussian_window_fct"
    /\ Len(window.radii) = 2
    /\ Len(window.J_max_list) = 1
    /\ Len(sh_cubes) = 3

\* the cubes of one shell when every J is tested (no early stop)
RECURSIVE FilterShell(_, _, _, _, _)
FilterShell(cubes, irreps, i, r, J_max) ==
    IF i > Len(irreps) THEN << >>
    ELSE (IF irreps[i] <= J_max THEN <<[cubes[i] EXCEPT !.r = r]>> ELSE << >>)
         \o FilterShell(cubes, irreps, i + 1, r, J_max)

RECURSIVE FullFilter(_, _, _, _, _)
FullFilter(cubes, irreps, radii, J_max_list, s) ==
    IF s > Len(radii) THEN << >>
    ELSE FilterShell(cubes, irreps, 1, radii[s], J_max_list[s])
         \o FullFilter(cubes, irreps, radii, J_max_list, s + 1)

\* C8: the output of gaussian_window_fct is, shell by shell, the windowed
\* cubes of exactly the J <= J_max of the shell, in the order of order_irreps:
\* the early stop selects what testing every J selects.  N_basis is the number
\* of accepted (shell, J) pairs; one shell with J_max >= order_in + order_out
\* on the list of _sample_cube gives 2*min(order_in, order_out)+1.
C8_EarlyStopIsFilter ==
    gw.status = "ok" =>
        LET full == FullFilter(sh_cubes, order_irreps, gw.radii, gw.J_max_list, 1)
        IN  /\ gw.basis.elems = full
            /\ (gw.basis.kind = "None") <=> (full = << >>)
            /\ gw.windowed = AcceptedPairs(order_irreps, gw.J_max_list, 1)
            /\ (/\ InPipeline
                /\ Len(gw.J_max_list) = 1
                /\ gw.J_max_list[1] >= args.order_in + args.order_out)
               => gw.windowed = 2 * Min(args.order_in, args.order_out) + 1

C8_Witness ==
    /\ pc = "direct_returned"
    /\ window.kind = "gaussian_window_fct"
    /\ order_irreps = <<0, 2>>
    /\ gw.J_max_list = <<1, 999>>
    /\ gw.windowed = 3

\* C9: order_irreps of _sample_cube holds each J with |order_in - order_out|
\* <= J <= order_in + order_out once, ascending, and nothing else; the i-th
\* cube is built from Q_J and Y_J of J = order_irreps[i]; the two cached
\* functions are requested for no other J.
Admissible(J) ==
    /\ Abs(args.order_in - args.order_out) <= J
    /\ J <= args.order_in + args.order_out

C9_AdmissibleRange ==
    InPipeline =>
        /\ \A i \in 1..Len(order_irreps) : Admissible(order_irreps[i])
        /\ \A J \in 0..(2 * MaxOrder + 1) :
              Admissible(J) => \E i \in 1..Len(order_irreps) : order_irreps[i] = J
        /\ \A i \in 1..(Len(order_irreps) - 1) : order_irreps[i] < order_irreps[i + 1]
        /\ Len(order_irreps) = 2 * Min(args.order_in, args.order_out) + 1
        /\ \A i \in 1..Len(sh_cubes) :
              sh_cubes[i].QJ = order_irreps[i] /\ sh_cubes[i].YJ = order_irreps[i]
        /\ pc \in {"sampled", "returned"} => Len(sh_cubes) = Len(order_irreps)
        /\ \A q \in requested : Admissible(q[2])
        /\ pc \in {"sampled", "returned"} =>
              \A i \in 1..Len(order_irreps) :
                  /\ <<"_sample_sh_cube", order_irreps[i]>> \in requested
                  /\ <<"_basis_transformation_Q_J", order_irreps[i]>> \in requested

C9_Witness ==
    /\ pc = "sampled"
    /\ args.order_in = 1
    /\ args.order_out = 1
    /\ order_irreps = <<0, 1, 2>>
    /\ Len(sh_cubes) = 3

\* C10: radial_window is invoked only after, for every J of the call, the
\* null space was found to have exactly one row, the self-check of Q_J passed
\* and the quarter-turn check of K_J passed; a failing self-check ends the
\* call at once: no later J is requested, radial_window is not invoked and
\* nothing is returned.
PassedAll(J) ==
    /\ <<"null_space", J, args.order_in, args.order_out, 0, 1>> \in checks
    /\ <<"Q_J", J, args.order_in, args.order_out, 0, 1>> \in checks
    /\ <<"quarter_turn", J, args.order_in, args.order_out, args.size, 1>> \in checks

Failed(c) == c[6] # 1

C10_ChecksPrecedeWindow ==
    InPipeline =>
        /\ window # NoWindow =>
              \A i \in 1..Len(order_irreps) : PassedAll(order_irreps[i])
        /\ \A i \in 1..idx : PassedAll(order_irreps[i])
        /\ \A c \in checks : Failed(c) =>
              /\ pc = "raised"
              /\ error \in SampleErrors
              /\ window = NoWindow
              /\ gw = NoGw
              /\ result = NoResult
              /\ idx < Len(order_irreps)
              /\ c[2] = order_irreps[idx + 1]
              /\ \A q \in requested : \E i \in 1..(idx + 1) : q[2] = order_irreps[i]
        /\ error \in SampleErrors => \E c \in checks : Failed(c)

C10_Witness ==
    /\ pc = "raised"
    /\ error = "AssertionError:79"
    /\ idx = 1
    /\ Len(order_irreps) = 3
    /\ \E c \in checks : c[1] = "null_space" /\ c[6] = 2

Computed(t) == tpc[t] \in {"computed", "done_miss"}
Done(t) == tpc[t] \in {"done_hit", "done_miss"}

AppendOnly(c, d) == \A k \in DOMAIN c : k \in DOMAIN d /\ d[k] = c[k]

C5_Inv ==
    /\ \A t \in Threads : Done(t) =>
          /\ CacheHas(StoreOf(tcall[t]), tcall[t].key)
          /\ CacheGet(StoreOf(tcall[t]), tcall[t].key) = tval[t]
          /\ [fn |-> tcall[t].fn, key |-> tcall[t].key, value |-> tval[t]] \in returned
    /\ \A r1 \in returned, r2 \in returned :
          (r1.fn = r2.fn /\ r1.key = r2.key) => r1.value = r2.value
    /\ \A w \in writes :
          LET store == IF w.fn = "_sample_sh_cube" THEN cacheY ELSE cacheQ
          IN  CacheHas(store, w.key) /\ CacheGet(store, w.key) = w.value
    /\ \A k \in DOMAIN cacheY :
          \E w \in writes : w.fn = "_sample_sh_cube" /\ w.key = k
    /\ \A k \in DOMAIN cacheQ :
          \E w \in writes : w.fn = "_basis_transformation_Q_J" /\ w.key = k

C5_Step ==
    /\ AppendOnly(cacheY, cacheY')
    /\ AppendOnly(cacheQ, cacheQ')
    /\ \A t \in Threads :
          \* the body runs only on a miss
          /\ (tpc[t] = "idle" /\ tpc'[t] = "computing") =>
                ~CacheHas(StoreOf(tcall'[t]), tcall'[t].key)
          /\ tpc'[t] \in {"computed", "raised"} => tpc[t] \in {"computing", tpc'[t]}
          \* a call that finds an entry returns it and computes nothing
          /\ (tpc[t] = "idle" /\ tpc'[t] # "idle"
                /\ CacheHas(StoreOf(tcall'[t]), tcall'[t].key)) =>
                /\ tpc'[t] = "done_hit"
                /\ tval'[t] = CacheGet(StoreOf(tcall'[t]), tcall'[t].key)
                /\ writes' = writes
          \* what was computed on a miss is stored, and returned
          /\ (tpc[t] = "computed" /\ tpc'[t] # "computed") =>
                /\ tpc'[t] = "done_miss"
                /\ CacheHas(StoreOf(tcall[t])', tcall[t].key)
                /\ CacheGet(StoreOf(tcall[t])', tcall[t].key) = tval[t]

\* C5: for both cached functions the body runs only on a miss, its result is
\* then stored, a later call with the same key returns the stored value
\* without recomputation, an entry once created is never changed or removed,
\* and two calls with the same arguments return the same value.
C5_CacheLifecycle == [](C5_Inv) /\ [][C5_Step]_vars

C5_Witness ==
    \E t1 \in Threads, t2 \in Threads :
        /\ tpc[t1] = "done_miss"
        /\ tpc[t2] = "done_hit"
        /\ tcall[t1] = tcall[t2]
        /\ tcall[t1].fn = "_sample_sh_cube"
        /\ tamb[t1] # tamb[t2]
        /\ tval[t1] = tval[t2]

\* the value one sequential call stores for a key, whatever the ambient
\* dtype and whatever torch.rand draws
IsSequentialValue(fn, key, v) ==
    IF fn = "_sample_sh_cube"
    THEN \A amb \in Dtypes : v = SampleShCube(key[1], key[2], amb)
    ELSE \A rnd \in RandDraws : v = BasisTransformationQJ(key[1], key[2], key[3], rnd)

\* C6: when several callers request the same missing key at once each may
\* compute and write, but all compute and return the same value, every write
\* to the key stores it, the entry equals what one sequential call would have
\* stored, and no reader sees another value.
C6_BenignRaces ==
    /\ \A t1 \in Threads, t2 \in Threads :
          (Computed(t1) /\ Computed(t2) /\ tcall[t1] = tcall[t2]) => tval[t1] = tval[t2]
    /\ \A w1 \in writes, w2 \in writes :
          (w1.fn = w2.fn /\ w1.key = w2.key) => w1.value = w2.value
    /\ \A w \in writes : IsSequentialValue(w.fn, w.key, w.value)
    /\ \A k \in DOMAIN cacheY : IsSequentialValue("_sample_sh_cube", k, cacheY[k])
    /\ \A k \in DOMAIN cacheQ : IsSequentialValue("_basis_transformation_Q_J", k, cacheQ[k])
    /\ \A r \in returned : IsSequentialValue(r.fn, r.key, r.value)
    /\ \A t \in Threads : Done(t) => IsSequentialValue(tcall[t].fn, tcall[t].key, tval[t])

C6_Witness ==
    \E t1 \in Threads, t2 \in Threads :
        /\ t1 # t2
        /\ tcall[t1] = tcall[t2]
        /\ tcall[t1].fn = "_basis_transformation_Q_J"
        /\ tpc[t1] = "done_miss"
        /\ tpc[t2] = "done_miss"

(***************************************************************************)
(* C11: origin special case of _sample_sh_cube.                            *)
(***************************************************************************)
\* the voxel at the code's indices (i, j, k), each in 0..size-1
C11_Voxel(i, j, k) == <<i + 1, j + 1, k + 1>>

\* twice the grid coordinate -(size-1)/2 + i
C11_Coord2(i) == 2 * i - (yargs.size - 1)

C11_Special(v) == Y_J[v].kind \in {"Y0(123,321)", "zero"}

\* C11: in _sample_sh_cube, with grid coordinates -(size-1)/2 + i for i in
\* 0..size-1 on each axis, every voxel is assigned at most once while the
\* loops run and exactly once when they have ended; an assigned voxel holds
\* the special value (the constant spherical_harmonics(0, 123, 321) when
\* J = 0, zero when J > 0) if and only if its three coordinates are all 0,
\* and otherwise holds the spherical harmonic of order J at its own
\* direction; on return a special voxel exists exactly when size is odd,
\* and is then the single voxel at index ((size-1)/2, (size-1)/2, (size-1)/2).
C11_OriginSpecialCase ==
    ypc # "idle" =>
        /\ \A i \in 0..(yargs.size - 1), j \in 0..(yargs.size - 1), k \in 0..(yargs.size - 1) :
            LET v == C11_Voxel(i, j, k) IN
            /\ assigned[v] <= 1
            /\ assigned[v] = 0 => Y_J[v].kind = "torch.zeros"
            /\ assigned[v] = 1 =>
                /\ C11_Special(v) <=>
                       (C11_Coord2(i) = 0 /\ C11_Coord2(j) = 0 /\ C11_Coord2(k) = 0)
                /\ C11_Special(v) =>
                       Y_J[v] = IF yargs.J = 0
                                THEN [kind |-> "Y0(123,321)", order |-> 0, at |-> <<123, 321>>]
                                ELSE [kind |-> "zero", order |-> yargs.J, at |-> << >>]
                /\ ~C11_Special(v) =>
                       Y_J[v] = [kind |-> "Y(alpha,beta)", order |-> yargs.J,
                                 at |-> <<C11_Coord2(i), C11_Coord2(j), C11_Coord2(k)>>]
            /\ ypc = "returned" => assigned[v] = 1
        /\ ypc = "returned" =>
            /\ (\E v \in Grid(yargs.size) : C11_Special(v)) <=> yargs.size % 2 = 1
            /\ yargs.size % 2 = 1 =>
                   {v \in Grid(yargs.size) : C11_Special(v)} =
                       {C11_Voxel((yargs.size - 1) \div 2, (yargs.size - 1) \div 2,
                                  (yargs.size - 1) \div 2)}
            /\ {v \in Grid(yargs.size) : C11_Special(v)} =
                   SampleShCube(yargs.size, yargs.J, "float64").origin

\* a cube of odd side 3 and order J > 0 has been returned: zero at its centre,
\* a spherical harmonic at a corner
C11_Witness ==
    /\ ypc = "returned"
    /\ yargs.size = 3
    /\ yargs.J > 0
    /\ Y_J[<<2, 2, 2>>].kind = "zero"
    /\ Y_J[<<1, 1, 1>>].kind = "Y(alpha,beta)"
    /\ assigned[<<2, 2, 2>>] = 1

====
